---- MODULE Spec2Model ----
(***************************************************************************)
(* Sites and groups service (FastAPI + SQLAlchemy + PostgreSQL).           *)
(*                                                                         *)
(* The state is the content of the tables groups, sites (with its joined   *)
(* extension tables sites_france / sites_italy) and site_group, plus the   *)
(* two id sequences.  Every routed handler of api/v1/groups.py and         *)
(* api/v1/sites.py is one action; the unrouted service function            *)
(* site_service.update_site is an action of its own.  The handlers run     *)
(* atomically in the sequential specifications and statement by statement  *)
(* in the two race specifications.  The query specification starts from a  *)
(* stored table and only reads.                                            *)
(*                                                                         *)
(* SiteCountry is spelled FRANCE/ITALY in models/site.py and france/italy  *)
(* in schemas/site.py and site_service.py; the model identifies the two    *)
(* spellings (it uses the enum values "france" and "italy").               *)
(***************************************************************************)
EXTENDS Integers, FiniteSets, Sequences, TLC

VARIABLES groups, nextGroupId, sites, nextSiteId, site_group, last, tx

vars == <<groups, nextGroupId, sites, nextSiteId, site_group, last, tx>>

(* ------------------------------ bounds --------------------------------- *)

\* Number of group ids the sequence groups_id_seq hands out.
MaxGroups == 3

\* Number of site ids the sequence sites_id_seq hands out.
MaxSites == 2

\* The last of the three consecutive installation dates drawn as inputs, a
\* day being counted from 2024-01-01 = day 1 (a Monday): day 7 is Sunday
\* 2024-01-07, the dates are a Friday, a Saturday and a Sunday.
LastDay == 7

\* Number of requests in flight at once in the race specifications.
NumRequests == 2

\* Number of groups the specifications with associations create.
MaxLinkedGroups == 2

\* Number of rows, groups and sites together, the specification of the whole
\* store creates.
MaxStoreRows == 3

\* The largest page number and page size the query specification asks for.
MaxPage == 2

(* ------------------------------ values --------------------------------- *)

\* Python's None / SQL NULL for parent_id and installation_date.  Ids and
\* day numbers start at 1.
None == 0

GroupIds == 1..MaxGroups

\* Path and body ids a client can send: every id the sequence can hand out
\* and one that never exists.
GroupIdInputs == 1..(MaxGroups + 1)

GroupType == {"group1", "group2", "group3"}

NoType == "none"

\* Group types drawn by the hierarchy specifications, where the type plays
\* no part.
HierarchyTypes == {NoType}

NoRows == [i \in {} |-> None]

(* --------------------------- group hierarchy --------------------------- *)

\* The row of a group.
GroupRow(t, p) == [type |-> t, parent_id |-> p]

GroupResult(op, p, c, s) == [op |-> op, parent |-> p, child |-> c, status |-> s]

\* groups.parent_id REFERENCES groups(id): the constraint on a row g that is
\* written with parent_id p into table content rows.
ParentFkHolds(rows, g, p) == p = None \/ p = g \/ p \in DOMAIN rows

\* The rows that reference group g other than g itself.
ChildrenOf(rows, g) == {c \in DOMAIN rows \ {g} : rows[c].parent_id = g}

\* POST /groups/ : group_crud.create inserts the body as it is.  The id is
\* drawn from the sequence before the constraint is checked, so a rejected
\* insert uses an id up.
create_group(t, p) ==
    /\ nextGroupId <= MaxGroups
    /\ nextGroupId' = nextGroupId + 1
    /\ IF ParentFkHolds(groups, nextGroupId, p)
       THEN /\ groups' = [i \in DOMAIN groups \cup {nextGroupId} |->
                            IF i = nextGroupId THEN GroupRow(t, p) ELSE groups[i]]
            /\ last' = GroupResult("create_group", p, nextGroupId, "ok")
       ELSE /\ groups' = groups
            /\ last' = GroupResult("create_group", p, nextGroupId, "StoreError")
    /\ UNCHANGED <<sites, nextSiteId, site_group, tx>>

\* PATCH /groups/{group_id} : 404 when absent, else group_crud.update writes
\* the fields the body sets (fs), parent_id among them, with no cycle check.
update_group(id, fs, t, p) ==
    /\ IF id \notin DOMAIN groups
       THEN /\ groups' = groups
            /\ last' = GroupResult("update_group", None, id, "NotFound")
       ELSE IF "parent_id" \in fs /\ ~ParentFkHolds(groups, id, p)
       THEN /\ groups' = groups
            /\ last' = GroupResult("update_group", p, id, "StoreError")
       ELSE /\ groups' = [groups EXCEPT ![id] =
                            [type |-> IF "type" \in fs THEN t ELSE @.type,
                             parent_id |-> IF "parent_id" \in fs THEN p ELSE @.parent_id]]
            /\ last' = GroupResult("update_group",
                                   IF "parent_id" \in fs THEN p ELSE None, id, "ok")
    /\ UNCHANGED <<nextGroupId, sites, nextSiteId, site_group, tx>>

\* DELETE /groups/{group_id} : 404 when absent, else DELETE FROM groups; the
\* foreign keys groups.parent_id and site_group.group_id have no ON DELETE
\* rule, so a referenced group cannot be deleted.
delete_group_ChildrenGoWithIt(id) ==
    /\ IF id \notin DOMAIN groups
       THEN /\ groups' = groups
            /\ last' = GroupResult("delete_group", None, id, "NotFound")
       ELSE IF \E a \in site_group : a[2] = id
       THEN /\ groups' = groups
            /\ last' = GroupResult("delete_group", None, id, "StoreError")
       ELSE /\ groups' = [i \in DOMAIN groups \ ({id} \cup ChildrenOf(groups, id)) |-> groups[i]]
            /\ last' = GroupResult("delete_group", None, id, "ok")
    /\ UNCHANGED <<nextGroupId, sites, nextSiteId, site_group, tx>>

delete_group(id) ==
    /\ IF id \notin DOMAIN groups
       THEN /\ groups' = groups
            /\ last' = GroupResult("delete_group", None, id, "NotFound")
       ELSE IF ChildrenOf(groups, id) # {} \/ (\E a \in site_group : a[2] = id)
       THEN /\ groups' = groups
            /\ last' = GroupResult("delete_group", None, id, "StoreError")
       ELSE /\ groups' = [i \in DOMAIN groups \ {id} |-> groups[i]]
            /\ last' = GroupResult("delete_group", None, id, "ok")
    /\ UNCHANGED <<nextGroupId, sites, nextSiteId, site_group, tx>>

\* The ancestor walk of add_child_to_group, from current upwards:
\*   while current and current.parent_id:
\*       if current.parent_id == child_id: raise 422
\*       current = await db.get(Group, current.parent_id)
\* "cycle" is the 422, "ok" the loop's end, "diverge" a walk that comes back
\* to a group it has been at without meeting child_id: the loop never ends.
RECURSIVE AncestorWalk(_, _, _, _)
AncestorWalk(rows, current, child_id, visited) ==
    IF current \notin DOMAIN rows \/ rows[current].parent_id = None THEN "ok"
    ELSE IF rows[current].parent_id = child_id THEN "cycle"
    ELSE IF rows[current].parent_id \in visited THEN "diverge"
    ELSE AncestorWalk(rows, rows[current].parent_id, child_id,
                      visited \cup {rows[current].parent_id})

\* The outcome of add_child_to_group's checks on table content rows.
AddChildOutcome_ImmediateParentOnly(rows, parent_id, child_id) ==
    IF parent_id \notin DOMAIN rows \/ child_id \notin DOMAIN rows THEN "NotFound"
    ELSE IF parent_id = child_id THEN "self-parent"
    ELSE IF rows[parent_id].parent_id = child_id THEN "cycle"
    ELSE "ok"

AddChildOutcome_WalkFromChild(rows, parent_id, child_id) ==
    IF parent_id \notin DOMAIN rows \/ child_id \notin DOMAIN rows THEN "NotFound"
    ELSE IF parent_id = child_id THEN "self-parent"
    ELSE AncestorWalk(rows, child_id, parent_id, {child_id})

AddChildOutcome_NoSelfCheck(rows, parent_id, child_id) ==
    IF parent_id \notin DOMAIN rows \/ child_id \notin DOMAIN rows THEN "NotFound"
    ELSE AncestorWalk(rows, parent_id, child_id, {parent_id})

AddChildOutcome_ChildNotLookedUp(rows, parent_id, child_id) ==
    IF parent_id \notin DOMAIN rows THEN "NotFound"
    ELSE IF parent_id = child_id THEN "self-parent"
    ELSE AncestorWalk(rows, parent_id, child_id, {parent_id})

AddChildOutcome(rows, parent_id, child_id) ==
    IF parent_id \notin DOMAIN rows \/ child_id \notin DOMAIN rows THEN "NotFound"
    ELSE IF parent_id = child_id THEN "self-parent"
    ELSE AncestorWalk(rows, parent_id, child_id, {parent_id})

\* POST /groups/{parent_id}/children/{child_id}.  A walk that never ends
\* gives the caller no response and writes nothing.
add_child_to_group_ParentRowWritten(parent_id, child_id) ==
    LET outcome == AddChildOutcome(groups, parent_id, child_id) IN
    /\ groups' = IF outcome = "ok"
                 THEN [groups EXCEPT ![parent_id].parent_id = child_id]
                 ELSE groups
    /\ last' = GroupResult("add_child_to_group", parent_id, child_id,
                           IF outcome = "diverge" THEN "no-response" ELSE outcome)
    /\ UNCHANGED <<nextGroupId, sites, nextSiteId, site_group, tx>>

add_child_to_group(parent_id, child_id) ==
    LET outcome == AddChildOutcome(groups, parent_id, child_id) IN
    /\ groups' = IF outcome = "ok"
                 THEN [groups EXCEPT ![child_id].parent_id = parent_id]
                 ELSE groups
    /\ last' = GroupResult("add_child_to_group", parent_id, child_id,
                           IF outcome = "diverge" THEN "no-response" ELSE outcome)
    /\ UNCHANGED <<nextGroupId, sites, nextSiteId, site_group, tx>>

\* DELETE /groups/{parent_id}/children/{child_id}.
remove_child_from_group_ExpectedParentIgnored(parent_id, child_id) ==
    /\ IF child_id \notin DOMAIN groups
       THEN /\ groups' = groups
            /\ last' = GroupResult("remove_child_from_group", parent_id, child_id, "NotFound")
       ELSE /\ groups' = [groups EXCEPT ![child_id].parent_id = None]
            /\ last' = GroupResult("remove_child_from_group", parent_id, child_id, "ok")
    /\ UNCHANGED <<nextGroupId, sites, nextSiteId, site_group, tx>>

remove_child_from_group(parent_id, child_id) ==
    /\ IF child_id \notin DOMAIN groups
       THEN /\ groups' = groups
            /\ last' = GroupResult("remove_child_from_group", parent_id, child_id, "NotFound")
       ELSE IF groups[child_id].parent_id # parent_id
       THEN /\ groups' = groups
            /\ last' = GroupResult("remove_child_from_group", parent_id, child_id, "not-child")
       ELSE /\ groups' = [groups EXCEPT ![child_id].parent_id = None]
            /\ last' = GroupResult("remove_child_from_group", parent_id, child_id, "ok")
    /\ UNCHANGED <<nextGroupId, sites, nextSiteId, site_group, tx>>

\* The empty database, the sequences at their first value.
Init ==
    /\ groups = NoRows
    /\ nextGroupId = 1
    /\ sites = NoRows
    /\ nextSiteId = 1
    /\ site_group = {}
    /\ last = [op |-> "init", status |-> "ok"]
    /\ tx = NoRows

NextGroups ==
    \/ \E t \in HierarchyTypes, p \in {None} \cup GroupIdInputs : create_group(t, p)
    \/ \E id \in GroupIdInputs, fs \in SUBSET {"parent_id"}, p \in {None} \cup GroupIdInputs :
          update_group(id, fs, NoType, p)
    \/ \E id \in GroupIdInputs : delete_group(id)
    \/ \E p \in GroupIdInputs, c \in GroupIdInputs : add_child_to_group(p, c)
    \/ \E p \in GroupIdInputs, c \in GroupIdInputs : remove_child_from_group(p, c)

\* The group operations, one request at a time.
SpecGroups == Init /\ [][NextGroups]_vars

(* -------------------------------- sites -------------------------------- *)

SiteCountry == {"france", "italy"}

NoCountry == "none"

Dates == {LastDay - 2, LastDay - 1, LastDay}

SiteIdInputs == 1..(MaxSites + 1)

\* date.weekday(): Monday is 0, Sunday is 6.
Weekday(d) == (d - 1) % 7

\* A site: the row of sites (country is the polymorphic discriminator,
\* installation_date a column of the base table) and the extension table
\* that holds its second row (variant).
SiteRow(c, v, d) == [country |-> c, variant |-> v, installation_date |-> d]

SiteResult(op, id, d, c, s) ==
    [op |-> op, id |-> id, date |-> d, country |-> c, status |-> s]

InsertSite(c, v, d) ==
    [i \in DOMAIN sites \cup {nextSiteId} |->
        IF i = nextSiteId THEN SiteRow(c, v, d) ELSE sites[i]]

\* select(SiteFrance).where(SiteFrance.installation_date == d) [.where(
\* SiteFrance.id != exclude_site_id)]: the join of sites and sites_france.
FrenchRowsOn(rows, d, exclude_site_id) ==
    {s \in DOMAIN rows : /\ rows[s].variant = "france"
                         /\ rows[s].installation_date = d
                         /\ s # exclude_site_id}

\* result.scalars().first() on those rows, in the order the store returns
\* them: "none" without rows, "found" when the first row loads as a
\* SiteFrance, "error" when its discriminator names the other class (the
\* ORM refuses the row and the request ends in a 500).
FirstFrenchSite(rows, d, exclude_site_id) ==
    IF FrenchRowsOn(rows, d, exclude_site_id) = {} THEN {"none"}
    ELSE {IF rows[s].country = "france" THEN "found" ELSE "error" :
             s \in FrenchRowsOn(rows, d, exclude_site_id)}

\* validators.validate_italian_site_date: True on a Saturday or a Sunday.
validate_italian_site_date(d) == Weekday(d) >= 5

\* The check of create_site_italy: weekday = ...weekday(); if weekday < 5.
WeekdayRefused_FridayAccepted(d) == Weekday(d) < 4

WeekdayRefused(d) == Weekday(d) < 5

\* POST /sites/france : the body's country defaults to france but is the
\* body's to set.
create_site_france(d, c) ==
    /\ nextSiteId <= MaxSites
    /\ \E found \in (IF d # None THEN FirstFrenchSite(sites, d, None) ELSE {"none"}) :
          IF found = "none"
          THEN /\ sites' = InsertSite(c, "france", d)
               /\ nextSiteId' = nextSiteId + 1
               /\ last' = SiteResult("create_site_france", nextSiteId, d, c, "ok")
          ELSE /\ UNCHANGED <<sites, nextSiteId>>
               /\ last' = SiteResult("create_site_france", None, d, c,
                             IF found = "found" THEN "duplicate-date" ELSE "InternalError")
    /\ UNCHANGED <<groups, nextGroupId, site_group, tx>>

\* POST /sites/italy.
create_site_italy_InsertsBeforeCheck(d, c) ==
    /\ nextSiteId <= MaxSites
    /\ sites' = InsertSite(c, "italy", d)
    /\ nextSiteId' = nextSiteId + 1
    /\ last' = SiteResult("create_site_italy", IF d # None /\ WeekdayRefused(d) THEN None ELSE nextSiteId,
                          d, c, IF d # None /\ WeekdayRefused(d) THEN "not-weekend" ELSE "ok")
    /\ UNCHANGED <<groups, nextGroupId, site_group, tx>>

create_site_italy(d, c) ==
    /\ nextSiteId <= MaxSites
    /\ IF d # None /\ WeekdayRefused(d)
       THEN /\ UNCHANGED <<sites, nextSiteId>>
            /\ last' = SiteResult("create_site_italy", None, d, c, "not-weekend")
       ELSE /\ sites' = InsertSite(c, "italy", d)
            /\ nextSiteId' = nextSiteId + 1
            /\ last' = SiteResult("create_site_italy", nextSiteId, d, c, "ok")
    /\ UNCHANGED <<groups, nextGroupId, site_group, tx>>

\* The bodies of PATCH /sites/{site_id} (SiteBase): fs is the set of fields
\* the body sets, which site_crud.update writes (exclude_unset).
UpdateBodies ==
    {b \in [fs : SUBSET {"installation_date", "country"},
            installation_date : {None} \cup Dates,
            country : SiteCountry \cup {NoCountry}] :
        /\ "installation_date" \notin b.fs => b.installation_date = None
        /\ "country" \notin b.fs => b.country = NoCountry}

\* UPDATE sites SET ... WHERE id = site_id; sites.country is NOT NULL.
UpdateSiteRow(site_id, b, op) ==
    IF "country" \in b.fs /\ b.country = NoCountry
    THEN /\ sites' = sites
         /\ last' = SiteResult(op, site_id, None, NoCountry, "StoreError")
    ELSE /\ sites' = [sites EXCEPT ![site_id] =
                        [country |-> IF "country" \in b.fs THEN b.country ELSE @.country,
                         variant |-> @.variant,
                         installation_date |->
                            IF "installation_date" \in b.fs
                            THEN b.installation_date ELSE @.installation_date]]
         /\ last' = SiteResult(op, site_id, None, NoCountry, "ok")

\* PATCH /sites/{site_id} : 404 when absent, else the update, unchecked.
update_site(site_id, b) ==
    /\ IF site_id \notin DOMAIN sites
       THEN /\ sites' = sites
            /\ last' = SiteResult("update_site", site_id, None, NoCountry, "NotFound")
       ELSE UpdateSiteRow(site_id, b, "update_site")
    /\ UNCHANGED <<groups, nextGroupId, nextSiteId, site_group, tx>>

\* site_service.update_site (no route calls it): the date rule of the
\* site's country is run when the body holds a date, then the same update.
service_update_site(site_id, b) ==
    /\ IF site_id \notin DOMAIN sites
       THEN /\ sites' = sites
            /\ last' = SiteResult("service_update_site", site_id, None, NoCountry, "NotFound")
       ELSE IF b.installation_date # None /\ sites[site_id].country = "france"
       THEN \E found \in FirstFrenchSite(sites, b.installation_date, site_id) :
               IF found = "none"
               THEN UpdateSiteRow(site_id, b, "service_update_site")
               ELSE /\ sites' = sites
                    /\ last' = SiteResult("service_update_site", site_id, None, NoCountry,
                                  IF found = "found" THEN "duplicate-date" ELSE "InternalError")
       ELSE IF /\ b.installation_date # None /\ sites[site_id].country = "italy"
               /\ ~validate_italian_site_date(b.installation_date)
       THEN /\ sites' = sites
            /\ last' = SiteResult("service_update_site", site_id, None, NoCountry, "not-weekend")
       ELSE UpdateSiteRow(site_id, b, "service_update_site")
    /\ UNCHANGED <<groups, nextGroupId, nextSiteId, site_group, tx>>

\* DELETE /sites/{site_id} : 404 when absent, else DELETE FROM sites; the
\* extension row goes with it (ON DELETE CASCADE), a site_group row that
\* references the site (no ON DELETE rule) makes the delete fail.
delete_site(site_id) ==
    /\ IF site_id \notin DOMAIN sites
       THEN /\ sites' = sites
            /\ last' = SiteResult("delete_site", site_id, None, NoCountry, "NotFound")
       ELSE IF \E a \in site_group : a[1] = site_id
       THEN /\ sites' = sites
            /\ last' = SiteResult("delete_site", site_id, None, NoCountry, "StoreError")
       ELSE /\ sites' = [i \in DOMAIN sites \ {site_id} |-> sites[i]]
            /\ last' = SiteResult("delete_site", site_id, None, NoCountry, "ok")
    /\ UNCHANGED <<groups, nextGroupId, nextSiteId, site_group, tx>>

NextSites ==
    \/ \E d \in {None} \cup Dates, c \in SiteCountry : create_site_france(d, c)
    \/ \E d \in {None} \cup Dates, c \in SiteCountry : create_site_italy(d, c)
    \/ \E id \in SiteIdInputs, b \in UpdateBodies : update_site(id, b)
    \/ \E id \in SiteIdInputs, b \in UpdateBodies : service_update_site(id, b)
    \/ \E id \in SiteIdInputs : delete_site(id)

\* The site operations, one request at a time.
SpecSites == Init /\ [][NextSites]_vars

(* ------------------------ the parent relation -------------------------- *)

\* The groups met by following parent_id from x (x itself only if the walk
\* comes back to it).
RECURSIVE ParentChain(_, _, _)
ParentChain(rows, x, acc) ==
    LET p == IF x \in DOMAIN rows THEN rows[x].parent_id ELSE None IN
    IF p = None \/ p \in acc THEN acc ELSE ParentChain(rows, p, acc \cup {p})

Ancestors(rows, x) == ParentChain(rows, x, {})

Acyclic(rows) == \A x \in DOMAIN rows : x \notin Ancestors(rows, x)

(* ------------------------- requests in flight -------------------------- *)
(* Each request runs in an AsyncSession of its own and gives way to the    *)
(* other requests at every await.  A SELECT reads what is committed at     *)
(* that moment (READ COMMITTED, the engine's default); db.get returns the  *)
(* object the session has loaded before without reading again; nothing is  *)
(* locked between a read and the commit.                                   *)

Requests == 1..NumRequests

Idle == [pc |-> "idle"]

\* Session.get: the object of the session's identity map if there is one,
\* else the committed row, else None (no entry).
SessionGet(loaded, id) ==
    IF id \in DOMAIN loaded \/ id \notin DOMAIN groups THEN loaded
    ELSE [i \in DOMAIN loaded \cup {id} |-> IF i = id THEN groups[id] ELSE loaded[i]]

Respond(r, status) == tx' = [tx EXCEPT ![r] = [@ EXCEPT !.pc = "done", !.status = status]]

\* add_child_to_group, line 194: parent = await db.get(Group, parent_id).
add_child_get_parent(r, parent_id, child_id) ==
    /\ tx[r].pc = "idle"
    /\ tx' = [tx EXCEPT ![r] =
                [op |-> "add_child_to_group", parent_id |-> parent_id, child_id |-> child_id,
                 loaded |-> SessionGet(NoRows, parent_id), current |-> parent_id,
                 pc |-> IF parent_id \in DOMAIN groups THEN "get_child" ELSE "done",
                 status |-> IF parent_id \in DOMAIN groups THEN "running" ELSE "NotFound"]]
    /\ UNCHANGED <<groups, nextGroupId, sites, nextSiteId, site_group, last>>

\* Lines 198-203: child = await db.get(Group, child_id), then the self check.
add_child_get_child(r) ==
    /\ tx[r].pc = "get_child"
    /\ LET loaded == SessionGet(tx[r].loaded, tx[r].child_id) IN
       IF tx[r].child_id \notin DOMAIN loaded THEN Respond(r, "NotFound")
       ELSE IF tx[r].parent_id = tx[r].child_id THEN Respond(r, "self-parent")
       ELSE tx' = [tx EXCEPT ![r] = [@ EXCEPT !.loaded = loaded, !.pc = "walk"]]
    /\ UNCHANGED <<groups, nextGroupId, sites, nextSiteId, site_group, last>>

\* Lines 206-212: one turn of the while loop, on the objects of the session.
add_child_walk(r) ==
    /\ tx[r].pc = "walk"
    /\ LET t == tx[r]
           up == IF t.current \in DOMAIN t.loaded
                 THEN t.loaded[t.current].parent_id ELSE None IN
       IF up = None THEN tx' = [tx EXCEPT ![r] = [@ EXCEPT !.pc = "commit"]]
       ELSE IF up = t.child_id THEN Respond(r, "cycle")
       ELSE tx' = [tx EXCEPT ![r] =
                     [@ EXCEPT !.loaded = SessionGet(t.loaded, up), !.current = up]]
    /\ UNCHANGED <<groups, nextGroupId, sites, nextSiteId, site_group, last>>

\* Lines 214-215: child.parent_id = parent_id; await db.commit().  The flush
\* writes the row only if the attribute differs from what was loaded.
add_child_commit(r) ==
    /\ tx[r].pc = "commit"
    /\ LET t == tx[r] IN
       groups' = IF t.loaded[t.child_id].parent_id # t.parent_id /\ t.child_id \in DOMAIN groups
                 THEN [groups EXCEPT ![t.child_id].parent_id = t.parent_id]
                 ELSE groups
    /\ Respond(r, "ok")
    /\ UNCHANGED <<nextGroupId, sites, nextSiteId, site_group, last>>

\* The forests add_child_to_group and create_group build: every group id
\* handed out, the parent relation acyclic.
Forests ==
    {g \in [GroupIds -> [type : {NoType}, parent_id : {None} \cup GroupIds]] :
        Acyclic(g)}

InitReparentRace ==
    /\ groups \in Forests
    /\ nextGroupId = MaxGroups + 1
    /\ sites = NoRows
    /\ nextSiteId = 1
    /\ site_group = {}
    /\ last = [op |-> "init", status |-> "ok"]
    /\ tx = [r \in Requests |-> Idle]

NextReparentRace ==
    \/ \E r \in Requests, p \in GroupIdInputs, c \in GroupIdInputs :
          add_child_get_parent(r, p, c)
    \/ \E r \in Requests : add_child_get_child(r)
    \/ \E r \in Requests : add_child_walk(r)
    \/ \E r \in Requests : add_child_commit(r)

\* Requests to add_child_to_group in flight together on a forest.
SpecReparentRace == InitReparentRace /\ [][NextReparentRace]_vars

\* create_site_france, lines 128-136: the SELECT and its verdict.
create_site_france_check(r, d, c) ==
    /\ tx[r].pc = "idle"
    /\ \E found \in (IF d # None THEN FirstFrenchSite(sites, d, None) ELSE {"none"}) :
          tx' = [tx EXCEPT ![r] =
                   [op |-> "create_site_france", date |-> d, country |-> c,
                    pc |-> IF found = "none" THEN "insert" ELSE "done",
                    status |-> IF found = "none" THEN "running"
                               ELSE IF found = "found" THEN "duplicate-date"
                               ELSE "InternalError"]]
    /\ UNCHANGED <<groups, nextGroupId, sites, nextSiteId, site_group, last>>

\* Line 138: site_france_crud.create, the INSERT and its commit.
create_site_france_insert(r) ==
    /\ tx[r].pc = "insert"
    /\ nextSiteId <= MaxSites
    /\ sites' = InsertSite(tx[r].country, "france", tx[r].date)
    /\ nextSiteId' = nextSiteId + 1
    /\ Respond(r, "ok")
    /\ UNCHANGED <<groups, nextGroupId, site_group, last>>

InitFrenchRace ==
    /\ groups = NoRows
    /\ nextGroupId = 1
    /\ sites = NoRows
    /\ nextSiteId = 1
    /\ site_group = {}
    /\ last = [op |-> "init", status |-> "ok"]
    /\ tx = [r \in Requests |-> Idle]

NextFrenchRace ==
    \/ \E r \in Requests, d \in {None} \cup Dates, c \in SiteCountry :
          create_site_france_check(r, d, c)
    \/ \E r \in Requests : create_site_france_insert(r)

\* Requests to create_site_france in flight together on an empty database.
SpecFrenchRace == InitFrenchRace /\ [][NextFrenchRace]_vars

(* ---------------------- associations and reads ----------------------- *)

\* The response to an association request; committed tells whether the
\* handler wrote (its db.commit() ran).
AssocResult(op, s, g, status, committed) ==
    [op |-> op, id |-> s, group |-> g, status |-> status, committed |-> committed]

\* POST /sites/{site_id}/groups/{group_id} : 404 when the site or the group
\* is absent, else the group is appended to site.groups unless it is there.
\* The group's type is not looked at.  site_group's primary key is the pair:
\* an append of a pair that is stored would be refused by the store.
add_site_to_group_AppendsUnchecked(site_id, group_id) ==
    /\ IF site_id \notin DOMAIN sites \/ group_id \notin DOMAIN groups
       THEN /\ site_group' = site_group
            /\ last' = AssocResult("add_site_to_group", site_id, group_id, "NotFound", FALSE)
       ELSE IF <<site_id, group_id>> \in site_group
       THEN /\ site_group' = site_group
            /\ last' = AssocResult("add_site_to_group", site_id, group_id, "StoreError", FALSE)
       ELSE /\ site_group' = site_group \cup {<<site_id, group_id>>}
            /\ last' = AssocResult("add_site_to_group", site_id, group_id, "ok", TRUE)
    /\ UNCHANGED <<groups, nextGroupId, sites, nextSiteId, tx>>

add_site_to_group(site_id, group_id) ==
    /\ IF site_id \notin DOMAIN sites \/ group_id \notin DOMAIN groups
       THEN /\ site_group' = site_group
            /\ last' = AssocResult("add_site_to_group", site_id, group_id, "NotFound", FALSE)
       ELSE /\ site_group' = site_group \cup {<<site_id, group_id>>}
            /\ last' = AssocResult("add_site_to_group", site_id, group_id, "ok",
                                   <<site_id, group_id>> \notin site_group)
    /\ UNCHANGED <<groups, nextGroupId, sites, nextSiteId, tx>>

\* DELETE /sites/{site_id}/groups/{group_id} : 404 when the site or the
\* group is absent, else the group is removed from site.groups if it is there.
remove_site_from_group_SiteLeavesEveryGroup(site_id, group_id) ==
    /\ IF site_id \notin DOMAIN sites \/ group_id \notin DOMAIN groups
       THEN /\ site_group' = site_group
            /\ last' = AssocResult("remove_site_from_group", site_id, group_id, "NotFound", FALSE)
       ELSE /\ site_group' = IF <<site_id, group_id>> \in site_group
                             THEN {a \in site_group : a[1] # site_id}
                             ELSE site_group
            /\ last' = AssocResult("remove_site_from_group", site_id, group_id, "ok",
                                   <<site_id, group_id>> \in site_group)
    /\ UNCHANGED <<groups, nextGroupId, sites, nextSiteId, tx>>

remove_site_from_group(site_id, group_id) ==
    /\ IF site_id \notin DOMAIN sites \/ group_id \notin DOMAIN groups
       THEN /\ site_group' = site_group
            /\ last' = AssocResult("remove_site_from_group", site_id, group_id, "NotFound", FALSE)
       ELSE /\ site_group' = site_group \ {<<site_id, group_id>>}
            /\ last' = AssocResult("remove_site_from_group", site_id, group_id, "ok",
                                   <<site_id, group_id>> \in site_group)
    /\ UNCHANGED <<groups, nextGroupId, sites, nextSiteId, tx>>

\* validators.validate_site_group_association: the group exists and its
\* type is not GROUP3.
validate_site_group_association(rows, group_id) ==
    group_id \in DOMAIN rows /\ rows[group_id].type # "group3"

\* site_service.add_site_to_group (no route calls it): 422 when the
\* validator says no (an absent group included), 404 when the site is
\* absent, else the append unless the group is there.
service_add_site_to_group(site_id, group_id) ==
    /\ IF ~validate_site_group_association(groups, group_id)
       THEN /\ site_group' = site_group
            /\ last' = AssocResult("service_add_site_to_group", site_id, group_id,
                                   "invalid-association", FALSE)
       ELSE IF site_id \notin DOMAIN sites
       THEN /\ site_group' = site_group
            /\ last' = AssocResult("service_add_site_to_group", site_id, group_id,
                                   "NotFound", FALSE)
       ELSE /\ site_group' = site_group \cup {<<site_id, group_id>>}
            /\ last' = AssocResult("service_add_site_to_group", site_id, group_id, "ok",
                                   <<site_id, group_id>> \notin site_group)
    /\ UNCHANGED <<groups, nextGroupId, sites, nextSiteId, tx>>

\* GET /sites/{site_id} : site = ...scalar_one_or_none(); site.country is
\* read before "if not site", so an absent site ends the request in an
\* AttributeError (500) and the 404 of line 115 is never raised.  For a
\* stored site the extension row of its country is fetched and subscripted:
\* a row in the other extension table gives None and a TypeError (500).
read_site(site_id) ==
    /\ last' = SiteResult("read_site", site_id, None, NoCountry,
                  IF site_id \notin DOMAIN sites THEN "InternalError"
                  ELSE IF sites[site_id].variant # sites[site_id].country THEN "InternalError"
                  ELSE "ok")
    /\ UNCHANGED <<groups, nextGroupId, sites, nextSiteId, site_group, tx>>

AllTypes == GroupType \cup {NoType}

NextAssociations ==
    \/ \E t \in AllTypes : nextGroupId <= MaxLinkedGroups /\ create_group(t, None)
    \/ \E id \in GroupIdInputs, t \in AllTypes : update_group(id, {"type"}, t, None)
    \/ \E id \in GroupIdInputs : delete_group(id)
    \/ create_site_france(None, "france")
    \/ create_site_italy(None, "italy")
    \/ \E s \in SiteIdInputs, g \in GroupIdInputs : add_site_to_group(s, g)
    \/ \E s \in SiteIdInputs, g \in GroupIdInputs : service_add_site_to_group(s, g)
    \/ \E s \in SiteIdInputs, g \in GroupIdInputs : remove_site_from_group(s, g)
    \/ \E s \in SiteIdInputs : delete_site(s)
    \/ \E s \in SiteIdInputs : read_site(s)

\* Sites, typed groups and their associations, one request at a time.
SpecAssociations == Init /\ [][NextAssociations]_vars

\* The inputs of the specification of the whole store: the ids the
\* sequences hand out (an id not yet handed out, or deleted, is the absent
\* one), a date (the first of Dates) or none, bodies that set the date.
LinkedGroupInputs == 1..MaxLinkedGroups

StoreSiteInputs == 1..MaxSites

StoreDates == {None, LastDay - 2}

StoreBodies == {b \in UpdateBodies : b.fs = {"installation_date"} /\ b.installation_date \in StoreDates}

\* Rows created so far, by the two sequences.
RowsCreated == (nextGroupId - 1) + (nextSiteId - 1)

NextStore ==
    \/ \E t \in {NoType, "group3"} :
          /\ nextGroupId <= MaxLinkedGroups /\ RowsCreated < MaxStoreRows
          /\ create_group(t, None)
    \/ \E p \in LinkedGroupInputs, c \in LinkedGroupInputs : add_child_to_group(p, c)
    \/ \E p \in LinkedGroupInputs, c \in LinkedGroupInputs : remove_child_from_group(p, c)
    \/ \E d \in StoreDates : RowsCreated < MaxStoreRows /\ create_site_france(d, "france")
    \/ \E d \in StoreDates : RowsCreated < MaxStoreRows /\ create_site_italy(d, "italy")
    \/ \E id \in StoreSiteInputs, b \in StoreBodies : update_site(id, b)
    \/ \E id \in StoreSiteInputs, b \in StoreBodies : service_update_site(id, b)
    \/ \E id \in StoreSiteInputs : delete_site(id)
    \/ \E s \in StoreSiteInputs, g \in LinkedGroupInputs : add_site_to_group(s, g)
    \/ \E s \in StoreSiteInputs, g \in LinkedGroupInputs : service_add_site_to_group(s, g)
    \/ \E s \in StoreSiteInputs, g \in LinkedGroupInputs : remove_site_from_group(s, g)

\* Every write handler on one store, one request at a time.
SpecStore == Init /\ [][NextStore]_vars

\* GET /groups/{group_id} : the row, or 404 when group_crud.get finds none.
read_group_AbsentAnsweredEmpty(group_id) ==
    /\ last' = GroupResult("read_group", None, group_id, "ok")
    /\ UNCHANGED <<groups, nextGroupId, sites, nextSiteId, site_group, tx>>

read_group(group_id) ==
    /\ last' = GroupResult("read_group", None, group_id,
                           IF group_id \in DOMAIN groups THEN "ok" ELSE "NotFound")
    /\ UNCHANGED <<groups, nextGroupId, sites, nextSiteId, site_group, tx>>

\* The group ids the sequence hands out here and one it never does.
LifeGroupInputs == 1..(MaxLinkedGroups + 1)

NextGroupLife ==
    \/ \E p \in {None} \cup LinkedGroupInputs :
          /\ nextGroupId <= MaxLinkedGroups /\ RowsCreated < MaxStoreRows
          /\ create_group(NoType, p)
    \/ \E id \in LifeGroupInputs : delete_group(id)
    \/ \E id \in LifeGroupInputs : read_group(id)
    \/ RowsCreated < MaxStoreRows /\ create_site_france(None, "france")
    \/ \E s \in StoreSiteInputs, g \in LinkedGroupInputs : add_site_to_group(s, g)
    \/ \E s \in StoreSiteInputs, g \in LinkedGroupInputs : remove_site_from_group(s, g)

\* Groups created, read and deleted, with children and sites, one request
\* at a time.
SpecGroupLife == Init /\ [][NextGroupLife]_vars

(* ------------------------------- queries ------------------------------ *)
(* read_sites and read_groups hand page, items_per_page, the filters and   *)
(* the sort to FastCRUD.get_multi and its result to paginated_response.    *)
(* A name is a sequence of characters.                                     *)

\* items_per_page: int = 10.
DefaultItemsPerPage == 10

SiteA == <<"S", "i", "t", "e", " ", "A">>

SiteABC == SiteA \o <<"B", "C">>

\* The names of stored rows and the names asked for ("site a" besides them).
StoredNames == {SiteA, SiteABC}

FilterNames == StoredNames \cup {<<"s", "i", "t", "e", " ", "a">>}

\* name: str | None = None, sort_by: str | None = None.
NoName == <<"none">>

NoSort == "none"

PageInputs == 0..MaxPage

\* Pages and sizes below zero, as <<page, items_per_page>>.
NegativePages == {<<0 - 1, 1>>, <<1, 0 - 1>>, <<0 - 1, 0 - 1>>}

\* The query parameters of GET /sites/.
SiteQuery(p, k, n, a, b, so) ==
    [page |-> p, items_per_page |-> k, name |-> n,
     installation_date_from |-> a, installation_date_to |-> b,
     sort_by |-> so[1], sort_order |-> so[2]]

\* class SortOrder.
SortOrders == {"asc", "desc"}

\* The queries drawn: pages of every size, sorted pages, and name and date
\* filters and sorts by name on the default page.
SiteQueries ==
    {SiteQuery(p, k, NoName, None, None, <<NoSort, "desc">>) : p \in PageInputs, k \in PageInputs}
    \cup {SiteQuery(pk[1], pk[2], NoName, None, None, <<NoSort, "desc">>) : pk \in NegativePages}
    \cup {SiteQuery(p, k, NoName, None, None, <<"id", "desc">>) : p \in 1..MaxPage, k \in 1..MaxPage}
    \cup {SiteQuery(1, DefaultItemsPerPage, NoName, None, None, <<"id", "asc">>)}
    \cup {SiteQuery(1, DefaultItemsPerPage, NoName, None, None, <<"name", o>>) : o \in SortOrders}
    \cup {SiteQuery(1, DefaultItemsPerPage, NoName, None, None, <<NoSort, "asc">>)}
    \cup {SiteQuery(1, DefaultItemsPerPage, n, None, None, <<NoSort, "desc">>) : n \in FilterNames}
    \cup {SiteQuery(1, DefaultItemsPerPage, NoName, a, b, <<NoSort, "desc">>) :
             a \in {None} \cup Dates, b \in {None} \cup Dates}

\* The query parameters of GET /groups/.
GroupQuery(p, k, n, t, so) ==
    [page |-> p, items_per_page |-> k, name |-> n, type |-> t,
     sort_by |-> so[1], sort_order |-> so[2]]

GroupQueries ==
    {GroupQuery(p, k, NoName, NoType, <<NoSort, "desc">>) : p \in PageInputs, k \in PageInputs}
    \cup {GroupQuery(pk[1], pk[2], NoName, NoType, <<NoSort, "desc">>) : pk \in NegativePages}
    \cup {GroupQuery(2, 1, NoName, NoType, <<"id", "desc">>)}
    \cup {GroupQuery(1, DefaultItemsPerPage, NoName, NoType, <<"name", o>>) : o \in SortOrders}
    \cup {GroupQuery(1, DefaultItemsPerPage, NoName, NoType, <<NoSort, "asc">>)}
    \cup {GroupQuery(1, DefaultItemsPerPage, n, NoType, <<NoSort, "desc">>) : n \in FilterNames}
    \cup {GroupQuery(1, DefaultItemsPerPage, NoName, t, <<NoSort, "desc">>) : t \in GroupType}

\* fastcrud.paginated.compute_offset.
compute_offset_PageTimesSize(page, items_per_page) == page * items_per_page

compute_offset(page, items_per_page) == (page - 1) * items_per_page

\* The filters read_sites builds: name is compared with ==, the dates with
\* >= and <= (a NULL date satisfies neither).
SiteMatches_ExclusiveFrom(row, q) ==
    /\ q.name # NoName => row.name = q.name
    /\ q.installation_date_from # None
         => (row.installation_date # None /\ row.installation_date > q.installation_date_from)
    /\ q.installation_date_to # None
         => (row.installation_date # None /\ row.installation_date <= q.installation_date_to)

SiteMatches(row, q) ==
    /\ q.name # NoName => row.name = q.name
    /\ q.installation_date_from # None
         => (row.installation_date # None /\ row.installation_date >= q.installation_date_from)
    /\ q.installation_date_to # None
         => (row.installation_date # None /\ row.installation_date <= q.installation_date_to)

\* The filters read_groups builds: name and type, both compared with ==.
GroupMatches(row, q) ==
    /\ q.name # NoName => row.name = q.name
    /\ q.type # NoType => row.type = q.type

RECURSIVE Ascending(_)
Ascending(S) ==
    IF S = {} THEN <<>>
    ELSE LET m == CHOOSE x \in S : \A y \in S : x <= y IN <<m>> \o Ascending(S \ {m})

Reverse(seq) == [i \in 1..Len(seq) |-> seq[Len(seq) + 1 - i]]

\* The ids of the matching rows in the order of the statement: ORDER BY id
\* when sort_by is id, else no ORDER BY and the rows as the table holds
\* them, which for a table that was only inserted into is by ascending id.
Ordered(ids, sort_by, sort_order) ==
    IF sort_by = "id" /\ sort_order = "desc" THEN Reverse(Ascending(ids)) ELSE Ascending(ids)

\* ORDER BY name compares two names by the collation of the database: a
\* name sorts before every name it is a proper prefix of, which settles the
\* order of the names stored here.
NameLeq(a, b) == Len(a) <= Len(b) /\ SubSeq(b, 1, Len(a)) = a

\* The sequences that hold each of ids once.
Arrangements(ids) ==
    {s \in [1..Cardinality(ids) -> ids] : \A a, b \in 1..Cardinality(ids) : a # b => s[a] # s[b]}

\* The orders the statement can return the matching rows in.  ORDER BY name
\* ASC|DESC leaves the order of rows of the same name to the store: every
\* arrangement sorted by name is one the store can return.
Orderings_DirectionIgnored(rows, ids, sort_by, sort_order) ==
    IF sort_by = "name"
    THEN {s \in Arrangements(ids) :
             \A a, b \in 1..Len(s) : a < b => NameLeq(rows[s[a]].name, rows[s[b]].name)}
    ELSE {Ordered(ids, sort_by, "asc")}

Orderings(rows, ids, sort_by, sort_order) ==
    IF sort_by = "name"
    THEN {s \in Arrangements(ids) :
             \A a, b \in 1..Len(s) :
                a < b => IF sort_order = "asc"
                         THEN NameLeq(rows[s[a]].name, rows[s[b]].name)
                         ELSE NameLeq(rows[s[b]].name, rows[s[a]].name)}
    ELSE {Ordered(ids, sort_by, sort_order)}

\* OFFSET offset LIMIT limit on that sequence.
Slice_OffsetDropped(seq, offset, limit) ==
    SubSeq(seq, 1, IF limit < Len(seq) THEN limit ELSE Len(seq))

Slice(seq, offset, limit) ==
    SubSeq(seq, offset + 1, IF offset + limit < Len(seq) THEN offset + limit ELSE Len(seq))

\* paginated_response: the page, the count and has_more = page *
\* items_per_page < total_count, with page and items_per_page echoed.
QueryResult(op, q, status, data, total_count) ==
    [op |-> op, query |-> q, status |-> status, data |-> data,
     page |-> q.page, items_per_page |-> q.items_per_page,
     total_count |-> total_count,
     has_more |-> q.page * q.items_per_page < total_count]

\* get_multi raises ValueError for a negative limit or offset (the request
\* ends in a 500); nothing else is checked, a limit of 0 is executed.
GetMultiRefuses(q) ==
    q.items_per_page < 0 \/ compute_offset(q.page, q.items_per_page) < 0

\* GET /sites/ : the page of get_multi; then, for every site of the page,
\* the extension row of its country is fetched and subscripted, which ends
\* the request in a TypeError (500) when that row is in the other table.
read_sites(q) ==
    LET matching == {i \in DOMAIN sites : SiteMatches(sites[i], q)} IN
    /\ \E ordered \in Orderings(sites, matching, q.sort_by, q.sort_order) :
          LET data == Slice(ordered, compute_offset(q.page, q.items_per_page), q.items_per_page)
          IN last' = IF GetMultiRefuses(q)
                     THEN QueryResult("read_sites", q, "InternalError", <<>>, 0)
                     ELSE IF \E j \in 1..Len(data) :
                                sites[data[j]].variant # sites[data[j]].country
                     THEN QueryResult("read_sites", q, "InternalError", <<>>, 0)
                     ELSE QueryResult("read_sites", q, "ok", data, Cardinality(matching))
    /\ UNCHANGED <<groups, nextGroupId, sites, nextSiteId, site_group, tx>>

\* GET /groups/ : the page of get_multi.
read_groups(q) ==
    LET matching == {i \in DOMAIN groups : GroupMatches(groups[i], q)} IN
    /\ \E ordered \in Orderings(groups, matching, q.sort_by, q.sort_order) :
          LET data == Slice(ordered, compute_offset(q.page, q.items_per_page), q.items_per_page)
          IN last' = IF GetMultiRefuses(q)
                     THEN QueryResult("read_groups", q, "InternalError", <<>>, 0)
                     ELSE QueryResult("read_groups", q, "ok", data, Cardinality(matching))
    /\ UNCHANGED <<groups, nextGroupId, sites, nextSiteId, site_group, tx>>

\* The site tables the create handlers build from an empty database, ids
\* 1..n.  Tables of dated sites named "Site A": the extension row in the
\* table of the route, a date the route's rule admits, the country the
\* route's or, on a French route without a date, italy (sent in the body).
DatedSites ==
    UNION {{t \in [1..n -> [country : SiteCountry, variant : SiteCountry,
                            installation_date : {None} \cup Dates, name : {SiteA}]] :
               /\ \A i \in 1..n :
                     /\ (t[i].variant = "italy" /\ t[i].installation_date # None)
                           => ~WeekdayRefused(t[i].installation_date)
                     /\ t[i].variant # t[i].country
                           => (t[i].variant = "france" /\ t[i].installation_date = None)
               /\ \A i, j \in 1..n :
                     (/\ i # j /\ t[i].variant = "france" /\ t[j].variant = "france"
                      /\ t[i].installation_date # None)
                        => t[i].installation_date # t[j].installation_date} :
           n \in 0..MaxSites}

\* Tables of French sites without a date, of either name.
NamedSites ==
    UNION {[1..n -> [country : {"france"}, variant : {"france"},
                     installation_date : {None}, name : StoredNames]] : n \in 0..MaxSites}

StoredSites == DatedSites \cup NamedSites

\* The group tables create_group builds, ids 1..n: groups named "Site A" of
\* any type, and groups without a type of either name.
StoredGroups ==
    UNION {[1..n -> [type : AllTypes, parent_id : {None}, name : {SiteA}]]
              \cup [1..n -> [type : {NoType}, parent_id : {None}, name : StoredNames]] :
           n \in 0..MaxLinkedGroups}

\* A database that holds sites or groups.
InitQuery ==
    /\ \/ sites \in StoredSites /\ groups = NoRows
       \/ sites = NoRows /\ groups \in StoredGroups
    /\ nextGroupId = Cardinality(DOMAIN groups) + 1
    /\ nextSiteId = Cardinality(DOMAIN sites) + 1
    /\ site_group = {}
    /\ last = [op |-> "init", status |-> "ok"]
    /\ tx = NoRows

NextQuery ==
    \/ \E q \in SiteQueries : read_sites(q)
    \/ \E q \in GroupQueries : read_groups(q)

\* Queries on a database nothing writes to.
SpecQuery == InitQuery /\ [][NextQuery]_vars

(* ------------------------------ reparenting --------------------------- *)

\* The group tables create_group and update_group build with every id
\* handed out: named groups of one type, each with any stored group, itself
\* included, or none as its parent.
StoredHierarchies ==
    [GroupIds -> [type : {"group1"}, parent_id : {None} \cup GroupIds, name : {SiteA}]]

\* The first site create_site_france stores, without a date.
OneSite == [i \in {1} |-> SiteRow("france", "france", None)]

\* A database that holds a hierarchy of groups and a site in some of them.
InitReparent ==
    /\ groups \in StoredHierarchies
    /\ nextGroupId = MaxGroups + 1
    /\ sites = OneSite
    /\ nextSiteId = Cardinality(DOMAIN OneSite) + 1
    /\ site_group \in SUBSET ((DOMAIN OneSite) \X GroupIds)
    /\ last = [op |-> "init", status |-> "ok"]
    /\ tx = NoRows

NextReparent ==
    \E p \in GroupIdInputs, c \in GroupIdInputs : add_child_to_group(p, c)

\* add_child_to_group on a stored hierarchy, one request at a time.
SpecReparent == InitReparent /\ [][NextReparent]_vars

(* ------------------------------- claims -------------------------------- *)

AddChildReturned(status) ==
    last.op = "add_child_to_group" /\ last.status = status

\* C1: in every state reached by create_group, update_group, delete_group,
\* add_child_to_group and remove_child_from_group the parent relation is
\* acyclic: no group is met again when parent_id is followed from it.
C1_ParentRelationAcyclic == Acyclic(groups)

\* C2: when add_child_to_group succeeds on an acyclic forest, the forest is
\* still acyclic and following parent_id from the child never comes back to
\* the child.
C2_SetParentKeepsForestAcyclic ==
    [][(Acyclic(groups) /\ AddChildReturned("ok")')
         => (Acyclic(groups') /\ last'.child \notin Ancestors(groups', last'.child))]_vars

\* C2 witness: a successful add_child_to_group left an acyclic forest in
\* which the child has a parent and a grandparent.
C2_Witness ==
    /\ AddChildReturned("ok")
    /\ Acyclic(groups)
    /\ groups[last.child].parent_id = last.parent
    /\ Cardinality(Ancestors(groups, last.child)) >= 2

\* C3: add_child_to_group with parent_id = child_id, the id of an existing
\* group, returns the self-parent error and leaves the table as it was.
C3_SelfParentRejected ==
    [][(last'.op = "add_child_to_group" /\ last'.parent = last'.child
            /\ last'.child \in DOMAIN groups)
         => (last'.status = "self-parent" /\ groups' = groups)]_vars

\* C3 witness: the self-parent error was returned for an existing group.
C3_Witness ==
    /\ AddChildReturned("self-parent")
    /\ last.parent = last.child
    /\ last.child \in DOMAIN groups

\* C4: add_child_to_group returns the cycle error whenever the child is an
\* ancestor of the (other) group it is to be put under, at any depth, and
\* then no parent_id changes.  (Child and parent are two groups: for one and
\* the same group C3's error is the one returned.)
C4_AncestorAtAnyDepthRejected ==
    [][(last'.op = "add_child_to_group" /\ last'.parent # last'.child
            /\ last'.child \in Ancestors(groups, last'.parent))
         => (last'.status = "cycle" /\ groups' = groups)]_vars

\* C4 witness: the cycle error was returned for a child that is an ancestor
\* of the parent but not its immediate parent (A <- B <- C, child A under C).
C4_Witness ==
    /\ AddChildReturned("cycle")
    /\ last.child \in Ancestors(groups, last.parent)
    /\ groups[last.parent].parent_id # last.child
    /\ Acyclic(groups)

\* The sites of country c: tagged c by the discriminator, with their second
\* row in the extension table of c.
SitesOf(rows, c) == {s \in DOMAIN rows : rows[s].country = c /\ rows[s].variant = c}

\* C5: with add_child_to_group requests in flight together, the check and
\* the write of each act as one step: no interleaving of their reads and
\* commits makes the parent relation cyclic.
C5_NoCycleUnderConcurrentSetParent ==
    \A x \in DOMAIN groups : x \notin Ancestors(groups, x)

\* C6: with create_site_france requests in flight together, the check and
\* the insert of each act as one step: no interleaving stores two france
\* sites with the same date.
C6_NoDuplicateDateUnderConcurrentCreate ==
    \A a, b \in SitesOf(sites, "france") :
        (a # b /\ sites[a].installation_date # None)
            => sites[a].installation_date # sites[b].installation_date

\* C7: create_site_france with a date returns the duplicate-date error
\* exactly when a france site already holds that date; with a date no france
\* site holds, or without a date, it succeeds.
C7_FrenchCreateFailsIffDateTaken ==
    [][last'.op = "create_site_france"
         => IF /\ last'.date # None
               /\ \E s \in SitesOf(sites, "france") :
                     sites[s].installation_date = last'.date
            THEN last'.status = "duplicate-date" /\ sites' = sites
            ELSE last'.status = "ok"]_vars

\* C8: create_site_italy with a date succeeds exactly when the date is a
\* Saturday or a Sunday (weekday 5 or 6); from Monday to Friday it returns
\* the weekend error and creates no site; without a date it succeeds.  The
\* site a success creates is an Italian one with that date.
C8_ItalianCreateSucceedsIffWeekend ==
    [][last'.op = "create_site_italy"
         => /\ last'.date = None => last'.status = "ok"
            /\ last'.date # None
                 => (last'.status = "ok" <=> Weekday(last'.date) \in {5, 6})
            /\ last'.status # "ok" => last'.status = "not-weekend" /\ sites' = sites
            /\ last'.status = "ok"
                 => /\ DOMAIN sites' = DOMAIN sites \cup {last'.id}
                    /\ last'.id \notin DOMAIN sites
                    /\ sites'[last'.id].variant = "italy"
                    /\ sites'[last'.id].installation_date = last'.date]_vars

\* C8 witness: a Friday has just been refused while an Italian site created
\* on a Saturday is stored.
C8_Witness ==
    /\ last.op = "create_site_italy"
    /\ last.status = "not-weekend"
    /\ Weekday(last.date) = 4
    /\ \E s \in SitesOf(sites, "italy") :
                               /\ sites[s].installation_date # None
                               /\ Weekday(sites[s].installation_date) = 5

\* C9: an update that changes a site's installation_date re-runs the date
\* rule of the site's country: a france site does not get a date another
\* france site holds, an italy site does not get a Monday-to-Friday date.
C9_UpdateReRunsDateRule ==
    [][\A s \in DOMAIN sites \cap DOMAIN sites' :
          (/\ last'.op \in {"update_site", "service_update_site"}
           /\ sites'[s].installation_date # sites[s].installation_date
           /\ sites'[s].installation_date # None)
          => /\ s \in SitesOf(sites, "france")
                  => \A o \in SitesOf(sites, "france") \ {s} :
                        sites[o].installation_date # sites'[s].installation_date
             /\ s \in SitesOf(sites, "italy")
                  => Weekday(sites'[s].installation_date) \in {5, 6}]_vars

\* C10: the country of a stored site never changes.
C10_CountryNeverChanges ==
    [][\A s \in DOMAIN sites \cap DOMAIN sites' :
          sites'[s].country = sites[s].country]_vars

\* C11: every stored site has one extension row and it is the one of its
\* country: a france site has its second row in sites_france and none in
\* sites_italy, an italy site the converse; delete_site removes both rows.
C11_OneExtensionRowMatchingCountry ==
    \A s \in DOMAIN sites : sites[s].variant = sites[s].country

\* C12: adding a stored site to a stored group fails with the association
\* error and leaves site_group as it was when the group's type is GROUP3;
\* with GROUP1, GROUP2 or no type it succeeds and the association is stored.
C12_Group3AssociationRefused ==
    [][(/\ last'.op \in {"add_site_to_group", "service_add_site_to_group"}
        /\ last'.id \in DOMAIN sites
        /\ last'.group \in DOMAIN groups)
         => IF groups[last'.group].type = "group3"
            THEN last'.status = "invalid-association" /\ site_group' = site_group
            ELSE /\ last'.status = "ok"
                 /\ site_group' = site_group \cup {<<last'.id, last'.group>>}]_vars

\* C14: read_site with an id no stored site has returns NotFound.
C14_ReadAbsentSiteNotFound ==
    [][(last'.op = "read_site" /\ last'.id \notin DOMAIN sites)
         => last'.status = "NotFound"]_vars

\* C15: delete_site of a stored site, in groups or not, succeeds and the
\* site is gone; read_site of that id straight after it returns NotFound;
\* delete_site of an id no site has returns NotFound.
C15_DeleteThenReadNotFound ==
    [][/\ last'.op = "delete_site"
          => IF last'.id \in DOMAIN sites
             THEN last'.status = "ok" /\ last'.id \notin DOMAIN sites'
             ELSE last'.status = "NotFound" /\ sites' = sites
       /\ (/\ last.op = "delete_site" /\ last.status = "ok"
           /\ last'.op = "read_site" /\ last'.id = last.id)
          => last'.status = "NotFound"]_vars

\* The failures a handler returns for a rule it checks or an id it does not
\* find.
ValidationOrNotFound ==
    {"NotFound", "self-parent", "cycle", "not-child", "duplicate-date", "not-weekend",
     "invalid-association"}

Range(seq) == {seq[i] : i \in 1..Len(seq)}

\* A read_sites response to a query without filters.
PlainSitePage(r) ==
    /\ r.op = "read_sites"
    /\ r.query.name = NoName
    /\ r.query.installation_date_from = None
    /\ r.query.installation_date_to = None

\* ceil(n / k).
PageCount(n, k) == (n + k - 1) \div k

\* Every stored site has its extension row in the table of its country.
ExtensionRowsMatch == \A i \in DOMAIN sites : sites[i].variant = sites[i].country

MatchingInOrder(r) ==
    IF r.op = "read_sites"
    THEN Orderings(sites, {i \in DOMAIN sites : SiteMatches(sites[i], r.query)},
                   r.query.sort_by, r.query.sort_order)
    ELSE Orderings(groups, {i \in DOMAIN groups : GroupMatches(groups[i], r.query)},
                   r.query.sort_by, r.query.sort_order)

C18_NonPositivePageRefused ==
    [][(/\ last'.op \in {"read_sites", "read_groups"}
        /\ (last'.query.page <= 0 \/ last'.query.items_per_page <= 0))
         => last'.status # "ok"]_vars

\* Lower case of a character of the names drawn.
Lower(ch) ==
    CASE ch = "S" -> "s" [] ch = "A" -> "a" [] ch = "B" -> "b" [] ch = "C" -> "c"
      [] OTHER -> ch

\* name contains part, ignoring case.
ContainsIgnoringCase(name, part) ==
    \E at \in 0..(Len(name) - Len(part)) :
        \A j \in 1..Len(part) : Lower(name[at + j]) = Lower(part[j])

\* C19: a query by name alone that returns a page (of the default size,
\* which holds every row) returns the rows whose name contains the name
\* asked for, ignoring case, and no others: "Site A" returns "Site ABC".
C19_NameFilterIsSubstringMatch ==
    [][(/\ last'.op \in {"read_sites", "read_groups"}
        /\ last'.query.name # NoName
        /\ last'.query.items_per_page = DefaultItemsPerPage
        /\ last'.status = "ok")
         => Range(last'.data) =
               IF last'.op = "read_sites"
               THEN {i \in DOMAIN sites : ContainsIgnoringCase(sites[i].name, last'.query.name)}
               ELSE {i \in DOMAIN groups : ContainsIgnoringCase(groups[i].name, last'.query.name)}]_vars

RowsRead(r) == IF r.op = "read_sites" THEN sites ELSE groups

\* Row i is not after row j in the order of field sort_by.
FieldLeq(rows, sort_by, i, j) ==
    IF sort_by = "name" THEN NameLeq(rows[i].name, rows[j].name) ELSE i <= j

\* C21: a page returned for a query with a sort_by is in the order of that
\* field, non-decreasing for asc and non-increasing for desc; two queries
\* without sort_by that differ in sort_order alone, one after the other,
\* return the same page.
C21_PageOrderedBySortField ==
    [][(last'.op \in {"read_sites", "read_groups"} /\ last'.status = "ok")
         => /\ last'.query.sort_by # NoSort
                 => \A a, b \in 1..Len(last'.data) :
                       a < b => IF last'.query.sort_order = "asc"
                                THEN FieldLeq(RowsRead(last'), last'.query.sort_by,
                                              last'.data[a], last'.data[b])
                                ELSE FieldLeq(RowsRead(last'), last'.query.sort_by,
                                              last'.data[b], last'.data[a])
            /\ (/\ last'.query.sort_by = NoSort
                /\ last.op = last'.op /\ last.status = "ok"
                /\ last.query = [last'.query EXCEPT !.sort_order = last.query.sort_order])
               => (/\ last'.data = last.data
                   /\ last'.total_count = last.total_count
                   /\ last'.has_more = last.has_more)]_vars

\* C21 witness: a page sorted by name, descending, has been returned that
\* holds the longer name first although its row has the smaller id.
C21_Witness ==
    /\ last.op \in {"read_sites", "read_groups"}
    /\ last.status = "ok"
    /\ last.query.sort_by = "name" /\ last.query.sort_order = "desc"
    /\ Len(last.data) >= 2
    /\ last.data[1] < last.data[2]
    /\ RowsRead(last)[last.data[1]].name # RowsRead(last)[last.data[2]].name

\* C22: remove_child_from_group for a stored child returns the not-child
\* error and changes nothing when the child's parent_id is not the parent_id
\* of the request (a child without a parent included); otherwise it sets the
\* child's parent_id to NULL and changes no other group.
C22_ClearParentChecksExpectedParent ==
    [][(last'.op = "remove_child_from_group" /\ last'.child \in DOMAIN groups)
         => IF groups[last'.child].parent_id # last'.parent
            THEN last'.status = "not-child" /\ groups' = groups
            ELSE /\ last'.status = "ok"
                 /\ groups' = [groups EXCEPT ![last'.child].parent_id = None]]_vars

\* C22 witness: a child has been detached from the parent named in the
\* request while another group still has its parent.
C22_Witness ==
    /\ last.op = "remove_child_from_group"
    /\ last.status = "ok"
    /\ last.parent # last.child
    /\ groups[last.child].parent_id = None
    /\ \E g \in DOMAIN groups \ {last.child} : groups[g].parent_id # None

\* C23: create_group with a parent_id that no stored group has returns
\* NotFound and creates no group.
C23_CreateWithAbsentParentNotFound ==
    [][(/\ last'.op = "create_group"
        /\ last'.parent # None
        /\ last'.parent \notin DOMAIN groups)
         => (last'.status = "NotFound" /\ groups' = groups)]_vars

\* C24: add_child_to_group returns NotFound whenever the parent id or the
\* child id is not the id of a stored group, and then no parent_id changes.
C24_SetParentAbsentIdNotFound ==
    [][(/\ last'.op = "add_child_to_group"
        /\ (last'.parent \notin DOMAIN groups \/ last'.child \notin DOMAIN groups))
         => (last'.status = "NotFound" /\ groups' = groups)]_vars

\* C24 witness: NotFound was returned for a stored parent and a child id no
\* group has, on a table in which a group has a parent.
C24_Witness ==
    /\ AddChildReturned("NotFound")
    /\ last.parent \in DOMAIN groups
    /\ last.child \notin DOMAIN groups
    /\ \E g \in DOMAIN groups : groups[g].parent_id # None

\* C25: delete_group of G removes no group but G: every other group stored
\* before the request, the children of G among them, is stored after it,
\* its row as it was.
C25_DeleteGroupDoesNotCascade ==
    [][last'.op = "delete_group"
         => \A g \in DOMAIN groups \ {last'.child} :
               g \in DOMAIN groups' /\ groups'[g] = groups[g]]_vars

\* C25 witness: delete_group has been asked for a stored group that has a
\* child, and the child is still stored.
C25_Witness ==
    /\ last.op = "delete_group"
    /\ last.status # "NotFound"
    /\ ChildrenOf(groups, last.child) # {}

\* C27: the ancestor walk of add_child_to_group ends in every state the
\* group operations reach: the request returns ok or a failure.  (The walk
\* is a loop over stored rows that nothing else writes meanwhile, so it
\* fails to end exactly when it comes back to a group it has left.)
C27_AncestorWalkTerminates ==
    last.op = "add_child_to_group" => last.status # "no-response"

\* A stored group that no group has as its parent and no site is in.
Unreferenced(id) ==
    /\ id \in DOMAIN groups
    /\ ChildrenOf(groups, id) = {}
    /\ \A a \in site_group : a[2] # id

\* C26: delete_group of a stored group without children and sites succeeds
\* and the group is gone; read_group of that id straight after it returns
\* NotFound; delete_group and read_group of an id no group has return
\* NotFound.
C26_DeleteThenReadGroupNotFound ==
    [][/\ (last'.op = "delete_group" /\ Unreferenced(last'.child))
          => (last'.status = "ok" /\ last'.child \notin DOMAIN groups')
       /\ (/\ last.op = "delete_group" /\ last.status = "ok"
           /\ last'.op = "read_group" /\ last'.child = last.child)
          => last'.status = "NotFound"
       /\ (last'.op \in {"delete_group", "read_group"} /\ last'.child \notin DOMAIN groups)
          => (last'.status = "NotFound" /\ groups' = groups)]_vars

\* C26 witness: a group has been deleted while a site is in another group.
C26_Witness ==
    /\ last.op = "delete_group"
    /\ last.status = "ok"
    /\ last.child \notin DOMAIN groups
    /\ site_group # {}

\* C28: a successful add_child_to_group sets the child's parent_id to the
\* parent of the request, whatever parent the child had, and leaves every
\* other group's parent_id, every group's name and type, the sites and the
\* associations as they were.
C28_SetParentWritesOnlyTheChild ==
    [][AddChildReturned("ok")'
         => /\ groups'[last'.child].parent_id = last'.parent
            /\ groups' = [groups EXCEPT ![last'.child].parent_id = last'.parent]
            /\ sites' = sites
            /\ site_group' = site_group]_vars

\* C28 witness: a group has been put under a parent that has a parent of
\* its own, while a site is in the child and in another group.
C28_Witness ==
    /\ AddChildReturned("ok")
    /\ groups[last.child].parent_id = last.parent
    /\ groups[last.parent].parent_id \notin {None, last.parent}
    /\ \E a, b \in site_group : a[2] = last.child /\ b[2] # last.child

\* C29: add_site_to_group for a pair that is associated succeeds and leaves
\* site_group, and the rest of the store, as it was.  (The same is stated of
\* site_service.add_site_to_group for the groups its validator admits.)
\* site_group, keyed by the pair, holds no pair twice.
C29_AddSiteToGroupIdempotent ==
    [][(/\ last'.op \in {"add_site_to_group", "service_add_site_to_group"}
        /\ <<last'.id, last'.group>> \in site_group
        /\ (last'.op = "service_add_site_to_group"
               => validate_site_group_association(groups, last'.group)))
         => /\ last'.status = "ok"
            /\ site_group' = site_group
            /\ groups' = groups
            /\ sites' = sites]_vars

\* C29 witness: add_site_to_group has succeeded without writing, for a pair
\* that was stored, beside another stored pair.
C29_Witness ==
    /\ last.op = "add_site_to_group"
    /\ last.status = "ok"
    /\ ~last.committed
    /\ <<last.id, last.group>> \in site_group
    /\ site_group # {<<last.id, last.group>>}

\* C30: remove_site_from_group returns NotFound when the site or the group
\* is not stored; for a stored pair of them it succeeds, removing that
\* association and no other when they are associated and leaving the store
\* as it was when they are not.
C30_RemoveSiteFromGroupExactPair ==
    [][last'.op = "remove_site_from_group"
         => /\ IF last'.id \notin DOMAIN sites \/ last'.group \notin DOMAIN groups
               THEN last'.status = "NotFound" /\ site_group' = site_group
               ELSE /\ last'.status = "ok"
                    /\ site_group' = site_group \ {<<last'.id, last'.group>>}
            /\ groups' = groups
            /\ sites' = sites]_vars

\* C30 witness: an association has been removed and the site is still in
\* another group.
C30_Witness ==
    /\ last.op = "remove_site_from_group"
    /\ last.status = "ok"
    /\ last.committed
    /\ <<last.id, last.group>> \notin site_group
    /\ \E a \in site_group : a[1] = last.id

====
